---- MODULE Spec2Model ----
(***************************************************************************)
(* Model of the save_file command of src-tauri/src/lib.rs: a native        *)
(* "Save As" dialog, a write of the content to the chosen path and an      *)
(* optional open of the written file.  Several invocations of the command  *)
(* may be in flight at once; the filesystem is the state they share.       *)
(***************************************************************************)
EXTENDS Integers, Sequences, FiniteSets, TLC

\* number of invocations of save_file the model follows
NumOps == 2

Ops == 1..NumOps

\* ---------------------------------------------------------------- inputs
Titles == {"Save"}
Names == {"out.txt"}
Contents == {<<72>>, <<72, 105>>}

\* the arguments of one invocation (lib.rs:12)
Requests ==
    [title : Titles, default_name : Names, content : Contents, open_file : BOOLEAN]

\* a path is a sequence of units; "xFF" stands for a byte that is not UTF-8
InvalidUnits == {"xFF"}
Replacement == "uFFFD"
P1 == <<"o">>
P2 == <<"o", "xFF">>
PathBufs == {P1, P2}

\* tauri_plugin_dialog::FilePath, what blocking_save_file hands back:
\* a plain path, a file URL, or a URL that names no file (content://)
FilePaths ==
    [variant : {"Path"}, scheme : {""}, path : {P2}]
      \cup [variant : {"Url"}, scheme : {"file", "content"}, path : {P1}]

\* Option<T> is a sequence of length at most one
None == <<>>
Some(x) == <<x>>

\* Result<T, E>
Ok(v) == [tag |-> "Ok", val |-> v]
Err(e) == [tag |-> "Err", val |-> e]

\* errors of the three services
CreateErrors == {"PermissionDenied"}
WriteAllErrors == {"StorageFull"}
OpenErrors == {"NoHandler"}

\* e.to_string(): the Display text of an error
to_string(e) ==
    CASE e = "InvalidPathUrl"   -> "URL is not a valid path"
      [] e = "PermissionDenied" -> "Permission denied (os error 13)"
      [] e = "StorageFull"      -> "No space left on device (os error 28)"
      [] e = "NoHandler"        -> "failed to open path"
      [] OTHER                  -> "unknown error"

\* (variant: the path component of any URL is taken for a file path)
into_path_lenient(fp) == [tag |-> "Ok", path |-> fp.path, err |-> ""]

\* FilePath::into_path: a Path is taken as is, a Url must be a file URL
into_path(fp) ==
    IF fp.variant = "Path" \/ fp.scheme = "file"
    THEN [tag |-> "Ok", path |-> fp.path, err |-> ""]
    ELSE [tag |-> "Err", path |-> <<>>, err |-> "InvalidPathUrl"]

\* Path::to_string_lossy: every invalid unit becomes U+FFFD
to_string_lossy(p) ==
    [i \in DOMAIN p |-> IF p[i] \in InvalidUnits THEN Replacement ELSE p[i]]

\* a service call as the service sees it
DialogCall(t, n) ==
    [svc |-> "dialog", title |-> t, name |-> n, path |-> <<>>, data |-> <<>>]
WriteCall(p, d) ==
    [svc |-> "write", title |-> "", name |-> "", path |-> p, data |-> d]
OpenCall(s) ==
    [svc |-> "open", title |-> "", name |-> "", path |-> s, data |-> <<>>]

\* a file of the filesystem
NoFile == [exists |-> FALSE, bytes |-> <<>>]
File(b) == [exists |-> TRUE, bytes |-> b]

\* ----------------------------------------------------------------- state
VARIABLES
    pc,         \* where each invocation stands
    req,        \* its arguments, None before it is invoked
    calls,      \* the service calls it has made, in order
    file_path,  \* what the dialog returned: None or Some(FilePath)
    path_buf,   \* the result of into_path, None before line 29
    wres,       \* the result of fs::write, None before it returns
    ores,       \* the result of open_path, None before it returns
    result,     \* what save_file returned, None while it runs
    written,    \* the file as fs::write left it when it returned Ok
    overlapped, \* whether two invocations have ever been in flight at once
    fs          \* the filesystem: the file at each path

vars == <<pc, req, calls, file_path, path_buf, wres, ores, result, written, overlapped, fs>>

Terminal == {"Cancelled", "PathConversionFailed", "WriteFailed", "OpenFailed", "Done"}

Init ==
    /\ pc = [o \in Ops |-> "Idle"]
    /\ req = [o \in Ops |-> None]
    /\ calls = [o \in Ops |-> <<>>]
    /\ file_path = [o \in Ops |-> None]
    /\ path_buf = [o \in Ops |-> None]
    /\ wres = [o \in Ops |-> None]
    /\ ores = [o \in Ops |-> None]
    /\ result = [o \in Ops |-> None]
    /\ written = [o \in Ops |-> None]
    /\ overlapped = FALSE
    /\ fs = [p \in PathBufs |-> NoFile]

\* ------------------------------------------------- expressions of the code
\* lines 16-21: the dialog gets the title and the default name of the request
DialogArgs(o) == DialogCall(req[o][1].title, req[o][1].default_name)

\* line 30: fs::write(&path_buf, content)
\* (variant: the path resolved by the first invocation is kept and reused)
WritePathStale(o) ==
    IF o > 1 /\ path_buf[1] # None /\ path_buf[1][1].tag = "Ok"
    THEN path_buf[1][1].path
    ELSE path_buf[o][1].path
WritePath(o) == path_buf[o][1].path
\* (variant: the last byte of the buffer is not written)
WriteDataShort(o) == SubSeq(req[o][1].content, 1, Len(req[o][1].content) - 1)
WriteData(o) == req[o][1].content

\* line 33: if open_file
\* (variant: the file is opened whatever the flag)
ShouldOpenAlways(o) == TRUE
\* (variant: a process-wide flag lets only the first save open its file)
ShouldOpenOnce(o) == req[o][1].open_file /\ \A x \in Ops \ {o} : ores[x] = None
ShouldOpen(o) == req[o][1].open_file

\* lines 35-36: open_path(path_buf.to_string_lossy().to_string(), None)
OpenTarget(o) == to_string_lossy(path_buf[o][1].path)

\* line 41 and line 39
\* (variant: a cancelled dialog is reported as a save)
CancelResultTrue == Ok("true")
CancelResult == Ok("false")
SuccessResult == Ok("true")

\* .map_err(|e| e.to_string())?
Propagate(e) == Err(to_string(e))

\* std::fs::write is File::create(path)?.write_all(contents):
\* the file is opened for writing, created if missing and truncated
\* (variant: the file is opened in append mode)
OpenOptionsAppend == [create |-> TRUE, truncate |-> FALSE, append |-> TRUE]
OpenOptions == [create |-> TRUE, truncate |-> TRUE, append |-> FALSE]

FileAfterCreate(f) ==
    IF f.exists /\ ~OpenOptions.truncate THEN f ELSE File(<<>>)

\* a write of d at the handle's offset: 0, or the end of file in append mode
FileAfterWrite(f, d) ==
    IF OpenOptions.append
    THEN File(f.bytes \o d)
    ELSE File(d \o SubSeq(f.bytes, Len(d) + 1, Len(f.bytes)))

\* ---------------------------------------------------------------- actions
Returned(o) == pc[o] \in Terminal
InFlight(o) == pc[o] \notin Terminal \cup {"Idle"}

\* lines 12-21: the command is invoked and shows the dialog
Invoke(o) ==
    /\ pc[o] = "Idle"
    /\ \E r \in Requests :
        /\ req' = [req EXCEPT ![o] = Some(r)]
        /\ calls' = [calls EXCEPT ![o] = <<DialogCall(r.title, r.default_name)>>]
    /\ pc' = [pc EXCEPT ![o] = "AwaitingDialog"]
    /\ overlapped' = (overlapped \/ \E x \in Ops \ {o} : InFlight(x))
    /\ UNCHANGED <<file_path, path_buf, wres, ores, result, written, fs>>

\* lines 21, 24, 40-42: the user cancels the dialog
DialogCancelled(o) ==
    /\ pc[o] = "AwaitingDialog"
    /\ file_path' = [file_path EXCEPT ![o] = None]
    /\ result' = [result EXCEPT ![o] = Some(CancelResult)]
    /\ pc' = [pc EXCEPT ![o] = "Cancelled"]
    /\ UNCHANGED <<req, calls, path_buf, wres, ores, written, overlapped, fs>>

\* lines 21, 24, 29: the user picks a path, which is converted to a PathBuf
DialogChosen(o) ==
    /\ pc[o] = "AwaitingDialog"
    /\ \E fp \in FilePaths :
        LET conv == into_path(fp) IN
        /\ file_path' = [file_path EXCEPT ![o] = Some(fp)]
        /\ path_buf' = [path_buf EXCEPT ![o] = Some(conv)]
        /\ IF conv.tag = "Ok"
           THEN /\ pc' = [pc EXCEPT ![o] = "Writing"]
                /\ UNCHANGED result
           ELSE /\ pc' = [pc EXCEPT ![o] = "PathConversionFailed"]
                /\ result' = [result EXCEPT ![o] = Some(Propagate(conv.err))]
    /\ UNCHANGED <<req, calls, wres, ores, written, overlapped, fs>>

\* fs::write is entered and has not yet opened the file
BeforeCreate(o) == pc[o] = "Writing" /\ Len(calls[o]) = 1
\* fs::write holds the open file and has not yet written
BeforeWriteAll(o) == pc[o] = "Writing" /\ Len(calls[o]) = 2

\* (variant: a failed File::create is tried a second time before giving up)
CreateFailsRetry(o) ==
    /\ BeforeCreate(o)
    /\ calls' = [calls EXCEPT ![o] =
                    @ \o <<WriteCall(WritePath(o), WriteData(o)),
                           WriteCall(WritePath(o), WriteData(o))>>]
    /\ \E e \in CreateErrors :
        /\ wres' = [wres EXCEPT ![o] = Some(Err(e))]
        /\ result' = [result EXCEPT ![o] = Some(Propagate(e))]
    /\ pc' = [pc EXCEPT ![o] = "WriteFailed"]
    /\ UNCHANGED <<req, file_path, path_buf, ores, written, overlapped, fs>>

\* line 30, File::create fails: nothing is written, the error is returned
CreateFails(o) ==
    /\ BeforeCreate(o)
    /\ calls' = [calls EXCEPT ![o] = Append(@, WriteCall(WritePath(o), WriteData(o)))]
    /\ \E e \in CreateErrors :
        /\ wres' = [wres EXCEPT ![o] = Some(Err(e))]
        /\ result' = [result EXCEPT ![o] = Some(Propagate(e))]
    /\ pc' = [pc EXCEPT ![o] = "WriteFailed"]
    /\ UNCHANGED <<req, file_path, path_buf, ores, written, overlapped, fs>>

\* line 30, File::create succeeds: the file exists and is empty
CreateOk(o) ==
    /\ BeforeCreate(o)
    /\ calls' = [calls EXCEPT ![o] = Append(@, WriteCall(WritePath(o), WriteData(o)))]
    /\ fs' = [fs EXCEPT ![WritePath(o)] = FileAfterCreate(@)]
    /\ UNCHANGED <<pc, req, file_path, path_buf, wres, ores, result, written, overlapped>>

\* (variant: the error of write_all is dropped and the command goes on)
WriteAllFailsIgnored(o) ==
    /\ BeforeWriteAll(o)
    /\ LET c == calls[o][2] IN
       \E k \in 0..(Len(c.data) - 1) :
          fs' = [fs EXCEPT ![c.path] = FileAfterWrite(@, SubSeq(c.data, 1, k))]
    /\ \E e \in WriteAllErrors : wres' = [wres EXCEPT ![o] = Some(Err(e))]
    /\ pc' = [pc EXCEPT ![o] = "Written"]
    /\ UNCHANGED <<req, calls, file_path, path_buf, ores, result, written, overlapped>>

\* line 30, write_all fails after k bytes: the error is returned
WriteAllFails(o) ==
    /\ BeforeWriteAll(o)
    /\ LET c == calls[o][2] IN
       \E k \in 0..(Len(c.data) - 1) :
          fs' = [fs EXCEPT ![c.path] = FileAfterWrite(@, SubSeq(c.data, 1, k))]
    /\ \E e \in WriteAllErrors :
        /\ wres' = [wres EXCEPT ![o] = Some(Err(e))]
        /\ result' = [result EXCEPT ![o] = Some(Propagate(e))]
    /\ pc' = [pc EXCEPT ![o] = "WriteFailed"]
    /\ UNCHANGED <<req, calls, file_path, path_buf, ores, written, overlapped>>

\* line 30, write_all succeeds: the whole buffer is in the file
WriteAllOk(o) ==
    /\ BeforeWriteAll(o)
    /\ LET c == calls[o][2] IN
       /\ fs' = [fs EXCEPT ![c.path] = FileAfterWrite(@, c.data)]
       /\ written' = [written EXCEPT ![o] = Some(fs'[c.path].bytes)]
    /\ wres' = [wres EXCEPT ![o] = Some(Ok(""))]
    /\ pc' = [pc EXCEPT ![o] = "Written"]
    /\ UNCHANGED <<req, calls, file_path, path_buf, ores, result, overlapped>>

\* (variant: the command waits until no other save is in progress)
FinishAfterOthers(o) ==
    /\ pc[o] = "Written"
    /\ ~ShouldOpen(o)
    /\ \A x \in Ops \ {o} : ~InFlight(x)
    /\ result' = [result EXCEPT ![o] = Some(SuccessResult)]
    /\ pc' = [pc EXCEPT ![o] = "Done"]
    /\ UNCHANGED <<req, calls, file_path, path_buf, wres, ores, written, overlapped, fs>>

\* lines 33, 39: no open was asked for
Finish(o) ==
    /\ pc[o] = "Written"
    /\ ~ShouldOpen(o)
    /\ result' = [result EXCEPT ![o] = Some(SuccessResult)]
    /\ pc' = [pc EXCEPT ![o] = "Done"]
    /\ UNCHANGED <<req, calls, file_path, path_buf, wres, ores, written, overlapped, fs>>

\* (variant: the written file is removed when the open fails)
OpenFailsRollback(o) ==
    /\ pc[o] = "Written"
    /\ ShouldOpen(o)
    /\ calls' = [calls EXCEPT ![o] = Append(@, OpenCall(OpenTarget(o)))]
    /\ \E e \in OpenErrors :
        /\ ores' = [ores EXCEPT ![o] = Some(Err(e))]
        /\ result' = [result EXCEPT ![o] = Some(Propagate(e))]
    /\ pc' = [pc EXCEPT ![o] = "OpenFailed"]
    /\ fs' = [fs EXCEPT ![calls[o][2].path] = NoFile]
    /\ UNCHANGED <<req, file_path, path_buf, wres, written, overlapped>>

\* (variant: the open is best effort, its error is dropped)
OpenFailsSwallowed(o) ==
    /\ pc[o] = "Written"
    /\ ShouldOpen(o)
    /\ calls' = [calls EXCEPT ![o] = Append(@, OpenCall(OpenTarget(o)))]
    /\ \E e \in OpenErrors : ores' = [ores EXCEPT ![o] = Some(Err(e))]
    /\ result' = [result EXCEPT ![o] = Some(SuccessResult)]
    /\ pc' = [pc EXCEPT ![o] = "Done"]
    /\ UNCHANGED <<req, file_path, path_buf, wres, written, overlapped, fs>>

\* (variant: a failed open is tried once more)
OpenFailsRetry(o) ==
    /\ pc[o] \in {"Written", "OpenFailed"}
    /\ Len(calls[o]) < 4
    /\ ShouldOpen(o)
    /\ calls' = [calls EXCEPT ![o] = Append(@, OpenCall(OpenTarget(o)))]
    /\ \E e \in OpenErrors :
        /\ ores' = [ores EXCEPT ![o] = Some(Err(e))]
        /\ result' = [result EXCEPT ![o] = Some(Propagate(e))]
    /\ pc' = [pc EXCEPT ![o] = "OpenFailed"]
    /\ UNCHANGED <<req, file_path, path_buf, wres, written, overlapped, fs>>

\* lines 33-36: the opener fails, the error is returned
OpenFails(o) ==
    /\ pc[o] = "Written"
    /\ ShouldOpen(o)
    /\ calls' = [calls EXCEPT ![o] = Append(@, OpenCall(OpenTarget(o)))]
    /\ \E e \in OpenErrors :
        /\ ores' = [ores EXCEPT ![o] = Some(Err(e))]
        /\ result' = [result EXCEPT ![o] = Some(Propagate(e))]
    /\ pc' = [pc EXCEPT ![o] = "OpenFailed"]
    /\ UNCHANGED <<req, file_path, path_buf, wres, written, overlapped, fs>>

\* (variant: the file is handed to the opener twice)
OpenOkTwice(o) ==
    /\ pc[o] = "Written"
    /\ ShouldOpen(o)
    /\ calls' = [calls EXCEPT ![o] =
                    @ \o <<OpenCall(OpenTarget(o)), OpenCall(OpenTarget(o))>>]
    /\ ores' = [ores EXCEPT ![o] = Some(Ok(""))]
    /\ result' = [result EXCEPT ![o] = Some(SuccessResult)]
    /\ pc' = [pc EXCEPT ![o] = "Done"]
    /\ UNCHANGED <<req, file_path, path_buf, wres, written, overlapped, fs>>

\* lines 33-39: the opener succeeds
OpenOk(o) ==
    /\ pc[o] = "Written"
    /\ ShouldOpen(o)
    /\ calls' = [calls EXCEPT ![o] = Append(@, OpenCall(OpenTarget(o)))]
    /\ ores' = [ores EXCEPT ![o] = Some(Ok(""))]
    /\ result' = [result EXCEPT ![o] = Some(SuccessResult)]
    /\ pc' = [pc EXCEPT ![o] = "Done"]
    /\ UNCHANGED <<req, file_path, path_buf, wres, written, overlapped, fs>>

Next ==
    \/ \E o \in Ops : Invoke(o)
    \/ \E o \in Ops : DialogCancelled(o)
    \/ \E o \in Ops : DialogChosen(o)
    \/ \E o \in Ops : CreateFails(o)
    \/ \E o \in Ops : CreateOk(o)
    \/ \E o \in Ops : WriteAllFails(o)
    \/ \E o \in Ops : WriteAllOk(o)
    \/ \E o \in Ops : Finish(o)
    \/ \E o \in Ops : OpenFails(o)
    \/ \E o \in Ops : OpenOk(o)

Spec == Init /\ [][Next]_vars

\* a step of invocation o after its dialog has answered: the code between the
\* calls runs on, and fs::write and open_path return
PostDialogStep(o) ==
    \/ CreateFails(o) \/ CreateOk(o)
    \/ WriteAllFails(o) \/ WriteAllOk(o)
    \/ Finish(o)
    \/ OpenFails(o) \/ OpenOk(o)

\* the command runs on a worker of the async runtime, which keeps running it;
\* nothing makes the user call the command or answer the dialog
Fairness == \A o \in Ops : WF_vars(PostDialogStep(o))

LiveSpec == Spec /\ Fairness

\* ------------------------------------------------------------ properties
\* the calls of invocation o to one service
CallsTo(o, s) == {i \in DOMAIN calls[o] : calls[o][i].svc = s}

\* the path the dialog of invocation o resolved to, if it did
Resolved(o) ==
    /\ file_path[o] # None
    /\ into_path(file_path[o][1]).tag = "Ok"
ResolvedPath(o) == into_path(file_path[o][1]).path

\* no other invocation has called the writer on the path o wrote
SoleWriter(o) ==
    \A x \in Ops \ {o} : \A i \in CallsTo(x, "write") :
        calls[x][i].path # calls[o][2].path

IsErr(r) == r # None /\ r[1].tag = "Err"
IsOk(r) == r # None /\ r[1].tag = "Ok"

\* C1: every call to the writer comes after the dialog call of the same
\* invocation, which returned a path, and uses that path; a file changes
\* only in a step of an invocation whose own dialog resolved to that file
WriteOnlyToDialogPath ==
    /\ [](\A o \in Ops : \A i \in CallsTo(o, "write") :
            /\ i > 1
            /\ calls[o][1].svc = "dialog"
            /\ Resolved(o)
            /\ calls[o][i].path = ResolvedPath(o))
    /\ [][\A p \in PathBufs : fs'[p] # fs[p] =>
            \E o \in Ops : /\ Resolved(o)
                           /\ ResolvedPath(o) = p
                           /\ pc[o] = "Writing"
                           /\ <<pc[o], calls[o]>> # <<pc'[o], calls'[o]>>]_vars

\* two invocations in sequence, each wrote the path its own dialog returned
WitnessC1 ==
    \E o1, o2 \in Ops :
        /\ ~overlapped
        /\ IsOk(wres[o1]) /\ IsOk(wres[o2])
        /\ calls[o1][2].path # calls[o2][2].path

\* C2: when the dialog returns no path the command returns Ok(false) in that
\* step, has called neither the writer nor the opener and never will, and the
\* step leaves the filesystem as it was
CancelLeavesNoTrace ==
    /\ [](\A o \in Ops : pc[o] = "Cancelled" =>
            /\ result[o] = Some(Ok("false"))
            /\ CallsTo(o, "write") = {} /\ CallsTo(o, "open") = {}
            /\ wres[o] = None /\ ores[o] = None)
    /\ [][\A o \in Ops :
            /\ (pc[o] = "AwaitingDialog" /\ pc'[o] = "Cancelled") => fs' = fs
            /\ pc[o] = "Cancelled" =>
                  <<pc'[o], calls'[o], result'[o]>> = <<pc[o], calls[o], result[o]>>]_vars

\* one invocation was cancelled while another one wrote its file
WitnessC2 ==
    \E o, x \in Ops :
        /\ pc[o] = "Cancelled"
        /\ IsOk(wres[x])
        /\ fs[calls[x][2].path].exists

\* C3: the opener is called only after the writer of the same invocation
\* returned Ok; when the writer fails the command returns an error and the
\* opener is not called, whatever open_file is
WriteBeforeOpen ==
    \A o \in Ops :
        /\ \A i \in CallsTo(o, "open") :
              /\ IsOk(wres[o])
              /\ \E j \in CallsTo(o, "write") : j < i
        /\ IsErr(wres[o]) =>
              /\ IsErr(result[o])
              /\ CallsTo(o, "open") = {}
              /\ ores[o] = None

\* a write failed in an invocation that asked for the open
WitnessC3 ==
    \E o \in Ops :
        /\ IsErr(wres[o])
        /\ req[o][1].open_file
        /\ pc[o] = "WriteFailed"

\* C4: with open_file = false, a returned path and a successful write, the
\* command returns Ok(true) and the opener is never called
NoOpenUnlessAsked ==
    \A o \in Ops :
        (req[o] # None /\ ~req[o][1].open_file) =>
            /\ CallsTo(o, "open") = {}
            /\ ores[o] = None
            /\ IsOk(wres[o]) =>
                  /\ pc[o] \in {"Written", "Done"}
                  /\ pc[o] = "Done" => result[o] = Some(Ok("true"))
                  /\ pc[o] = "Written" => result[o] = None

\* a save without open has returned
WitnessC4 ==
    \E o \in Ops :
        /\ pc[o] = "Done"
        /\ ~req[o][1].open_file
        /\ result[o] = Some(Ok("true"))

\* C5: when the open fails after a successful write the command returns the
\* opener's message as its error, the failing open leaves the filesystem as
\* it was, the invocation does nothing more, and the file holds the written
\* bytes as long as no other invocation writes that path
NoRollbackOnOpenFailure ==
    /\ [](\A o \in Ops : pc[o] = "OpenFailed" =>
            /\ IsOk(wres[o])
            /\ IsErr(ores[o])
            /\ result[o] = Some(Err(to_string(ores[o][1].val)))
            /\ Cardinality(CallsTo(o, "write")) = 1
            /\ SoleWriter(o) => fs[ResolvedPath(o)] = File(req[o][1].content))
    /\ [][\A o \in Ops :
            /\ (pc[o] = "Written" /\ pc'[o] = "OpenFailed") => fs' = fs
            /\ pc[o] = "OpenFailed" =>
                  <<pc'[o], calls'[o], result'[o]>> = <<pc[o], calls[o], result[o]>>]_vars

\* an open failed and the file is there with the content of the request
WitnessC5 ==
    \E o \in Ops :
        /\ pc[o] = "OpenFailed"
        /\ SoleWriter(o)
        /\ fs[calls[o][2].path] = File(req[o][1].content)
        /\ Len(req[o][1].content) = 2

\* the outcome of the path conversion of invocation o
ConvFailed(o) == path_buf[o] # None /\ path_buf[o][1].tag = "Err"
ConvOk(o) == path_buf[o] # None /\ path_buf[o][1].tag = "Ok"

\* C6: the command returns Ok(true) only if the conversion, the write and,
\* when asked for, the open all succeeded; as soon as one of them has failed
\* the command has returned Err with the message of that step; Ok(false) is
\* returned for a cancelled dialog only
NoFailureDiscarded ==
    \A o \in Ops :
        /\ result[o] = Some(Ok("true")) =>
              /\ ConvOk(o)
              /\ IsOk(wres[o])
              /\ req[o][1].open_file => IsOk(ores[o])
        /\ ConvFailed(o) => result[o] = Some(Err(to_string(path_buf[o][1].err)))
        /\ IsErr(wres[o]) => result[o] = Some(Err(to_string(wres[o][1].val)))
        /\ IsErr(ores[o]) => result[o] = Some(Err(to_string(ores[o][1].val)))
        /\ result[o] = Some(Ok("false")) => pc[o] = "Cancelled"
        /\ IsErr(result[o]) => (ConvFailed(o) \/ IsErr(wres[o]) \/ IsErr(ores[o]))

\* each of the three steps has failed in some invocation, and was reported
WitnessC6 ==
    \E o \in Ops :
        /\ IsErr(ores[o])
        /\ result[o] = Some(Err("failed to open path"))
        /\ \E x \in Ops : ConvFailed(x) \/ IsErr(wres[x])

\* C7: when the command returns Ok(true) it has called the writer once, with
\* the path its dialog returned and exactly the content of the request, the
\* writer returned Ok, and the file holds exactly that content as long as no
\* other invocation writes that path
NoPartialSuccess ==
    \A o \in Ops :
        result[o] = Some(Ok("true")) =>
            /\ Resolved(o)
            /\ CallsTo(o, "write") = {2}
            /\ calls[o][2] = WriteCall(ResolvedPath(o), req[o][1].content)
            /\ IsOk(wres[o])
            /\ SoleWriter(o) =>
                  /\ fs[ResolvedPath(o)] = File(req[o][1].content)
                  /\ written[o] = Some(req[o][1].content)

\* a save of the two-byte content returned Ok(true) and the file holds it
WitnessC7 ==
    \E o \in Ops :
        /\ result[o] = Some(Ok("true"))
        /\ SoleWriter(o)
        /\ req[o][1].content = <<72, 105>>
        /\ fs[calls[o][2].path].bytes = <<72, 105>>

\* the transitions of the state machine as the specification lists them
ListedTransitions ==
    { <<"Idle", "AwaitingDialog">>,
      <<"AwaitingDialog", "Cancelled">>, <<"AwaitingDialog", "Writing">>,
      <<"Writing", "WriteFailed">>, <<"Writing", "Written">>,
      <<"Written", "OpenFailed">>, <<"Written", "Done">> }
ListedTerminal == {"Cancelled", "WriteFailed", "OpenFailed", "Done"}

\* the same with the exit the path conversion adds
ActualTransitions ==
    ListedTransitions \cup { <<"AwaitingDialog", "PathConversionFailed">> }

\* the command has returned exactly in the terminal states of T, each with
\* its own kind of result
TerminalStates(T) ==
    \A o \in Ops :
        /\ result[o] # None <=> pc[o] \in T
        /\ pc[o] = "Cancelled" <=> result[o] = Some(Ok("false"))
        /\ pc[o] = "Done" <=> result[o] = Some(Ok("true"))
        /\ pc[o] \in T \ {"Cancelled", "Done"} <=> IsErr(result[o])

\* only the transitions of Tr occur; an invocation in a terminal state makes
\* no more calls and stays there
Transitions(Tr, T) ==
    \A o \in Ops :
        /\ pc'[o] # pc[o] => <<pc[o], pc'[o]>> \in Tr
        /\ pc[o] \in T =>
              <<pc'[o], calls'[o], result'[o]>> = <<pc[o], calls[o], result[o]>>

\* C8, as stated: Idle -> AwaitingDialog -> (Cancelled | Writing ->
\* (WriteFailed | Written -> (OpenFailed | Done))), with four terminal states
FourTerminalStates ==
    /\ []TerminalStates(ListedTerminal)
    /\ [][Transitions(ListedTransitions, ListedTerminal)]_vars

\* C8, amended: the same machine with a fifth terminal state,
\* PathConversionFailed, entered from AwaitingDialog when the returned path
\* cannot be converted
FiveTerminalStates ==
    /\ []TerminalStates(Terminal)
    /\ [][Transitions(ActualTransitions, Terminal)]_vars

\* every terminal state is occupied by some invocation or other: here the
\* conversion failure next to a completed save
WitnessC8 ==
    \E o, x \in Ops :
        /\ pc[o] = "PathConversionFailed"
        /\ pc[x] \in {"Done", "OpenFailed"}

\* o1 and o2 ran with the same request and the same path from the dialog,
\* both writes succeeded, nobody else wrote that path
RanTwice(o1, o2) ==
    /\ o1 # o2
    /\ req[o1] = req[o2]
    /\ file_path[o1] = file_path[o2]
    /\ IsOk(wres[o1]) /\ IsOk(wres[o2])
    /\ \A x \in Ops \ {o1, o2} : \A i \in CallsTo(x, "write") :
          calls[x][i].path # calls[o1][2].path

\* C9, as stated: of two runs in sequence, the second leaves the file as the
\* first did, and both return the same result
SameFileAndSameResult ==
    \A o1, o2 \in Ops :
        (~overlapped /\ RanTwice(o1, o2) /\ Returned(o1) /\ Returned(o2)) =>
            /\ written[o2] = written[o1]
            /\ result[o2] = result[o1]

\* C9, amended: of two runs, in sequence or not, each leaves the file as the
\* other did, holding the content of the request, and both return the same
\* result when the opener was not asked for or answered the same both times
SameFileAndResultPerOpener ==
    \A o1, o2 \in Ops :
        RanTwice(o1, o2) =>
            /\ written[o2] = written[o1]
            /\ written[o2] = Some(req[o2][1].content)
            /\ fs[calls[o2][2].path] = File(req[o2][1].content)
            /\ (Returned(o1) /\ Returned(o2) /\ ores[o1] = ores[o2]) =>
                  result[o2] = result[o1]

\* the same save was run twice in sequence with open, and returned twice
WitnessC9 ==
    \E o1, o2 \in Ops :
        /\ ~overlapped
        /\ RanTwice(o1, o2)
        /\ Returned(o1) /\ Returned(o2)
        /\ req[o2][1].open_file
        /\ ores[o1] = ores[o2]
        /\ written[o2] = Some(<<72, 105>>)

\* what the dialog answered to invocation o
Answered(o) == pc[o] \notin {"Idle", "AwaitingDialog"}
DialogAnswer(o) == <<pc[o] = "Cancelled", file_path[o]>>

\* the responses o1 and o2 both received are the same
SameResponses(o1, o2) ==
    /\ Answered(o1) /\ Answered(o2)
    /\ DialogAnswer(o1) = DialogAnswer(o2)
    /\ (wres[o1] # None /\ wres[o2] # None) => wres[o1] = wres[o2]
    /\ (ores[o1] # None /\ ores[o2] # None) => ores[o1] = ores[o2]

IsPrefix(a, b) == Len(a) <= Len(b) /\ a = SubSeq(b, 1, Len(a))

\* what an invocation keeps for itself
Local(o) ==
    <<pc[o], req[o], calls[o], file_path[o], path_buf[o], wres[o], ores[o], result[o]>>

\* C10: two invocations with the same request whose service calls received
\* the same responses make the same calls with the same arguments and return
\* the same result, however their steps interleave; a step is the step of one
\* invocation and changes nothing that another invocation keeps
InvocationsIndependent ==
    /\ [](\A o1, o2 \in Ops :
            (req[o1] = req[o2] /\ SameResponses(o1, o2)) =>
                /\ IsPrefix(calls[o1], calls[o2]) \/ IsPrefix(calls[o2], calls[o1])
                /\ (Returned(o1) /\ Returned(o2)) =>
                      /\ calls[o1] = calls[o2]
                      /\ result[o1] = result[o2])
    /\ [][Cardinality({o \in Ops : Local(o)' # Local(o)}) <= 1]_vars

\* two invocations were inside fs::write on the same file at once, so that
\* one found the bytes of the other in it, and both have returned
WitnessC10 ==
    \E o1, o2 \in Ops :
        /\ o1 # o2
        /\ Returned(o1) /\ Returned(o2)
        /\ written[o1] # None
        /\ written[o1][1] # req[o1][1].content

\* C11: an invocation calls the dialog exactly once, the writer at most once
\* and the opener at most once, whichever way it ends; a service that has
\* answered is not called again
OneCallPerService ==
    \A o \in Ops :
        /\ pc[o] # "Idle" => Cardinality(CallsTo(o, "dialog")) = 1
        /\ pc[o] = "Idle" => calls[o] = <<>>
        /\ Cardinality(CallsTo(o, "write")) <= 1
        /\ Cardinality(CallsTo(o, "open")) <= 1
        /\ wres[o] # None => Cardinality(CallsTo(o, "write")) = 1
        /\ ores[o] # None => Cardinality(CallsTo(o, "open")) = 1

\* one invocation ended on a failed write and another on a failed open, each
\* after a single call to the failing service
WitnessC11 ==
    \E o, x \in Ops :
        /\ pc[o] = "WriteFailed" /\ Cardinality(CallsTo(o, "write")) = 1
        /\ pc[x] = "OpenFailed" /\ Cardinality(CallsTo(x, "open")) = 1

\* C12: the path handed to the opener is the path that was handed to the
\* writer, for every path the dialog can return
OpenerGetsWrittenPath ==
    \A o \in Ops : \A i \in CallsTo(o, "open") :
        /\ IsOk(wres[o])
        /\ calls[o][i].path = calls[o][2].path

\* the dialog answered with a URL that names no file
Unconvertible(o) ==
    /\ file_path[o] # None
    /\ file_path[o][1].variant = "Url"
    /\ file_path[o][1].scheme # "file"

\* C13: when the returned path cannot be converted the command returns Err
\* with the message of the conversion in that step, which leaves the
\* filesystem as it was, and neither the writer nor the opener is ever called
ConversionFailureStops ==
    /\ [](\A o \in Ops : Unconvertible(o) =>
            /\ pc[o] = "PathConversionFailed"
            /\ result[o] = Some(Err("URL is not a valid path"))
            /\ CallsTo(o, "write") = {} /\ CallsTo(o, "open") = {}
            /\ wres[o] = None /\ ores[o] = None)
    /\ [][\A o \in Ops :
            /\ (~Unconvertible(o) /\ Unconvertible(o)') => fs' = fs
            /\ Unconvertible(o) =>
                  <<pc'[o], calls'[o], result'[o]>> = <<pc[o], calls[o], result[o]>>]_vars

\* a conversion failed with open asked for, while another invocation saved
WitnessC13 ==
    \E o, x \in Ops :
        /\ Unconvertible(o)
        /\ req[o][1].open_file
        /\ IsErr(result[o])
        /\ pc[x] = "Done"

\* C14: once the dialog has answered, with a path or a cancel, the invocation
\* returns, given that the writer and the opener return: an answered
\* invocation stays answered and a returned one stays returned, so it returns
\* if and only if, again and again, it is not left answered without having
\* returned.  From the answer to the return it asks the dialog nothing more,
\* keeps the answer it got and cannot end up cancelled
ReturnsAfterDialog ==
    /\ \A o \in Ops : []<>(Answered(o) => Returned(o))
    /\ [][\A o \in Ops :
            /\ Answered(o) => Answered(o)'
            /\ Returned(o) => Returned(o)'
            /\ (Answered(o) /\ ~Returned(o)) =>
                  /\ pc'[o] # "Cancelled"
                  /\ file_path'[o] = file_path[o]
                  /\ CallsTo(o, "dialog")' = CallsTo(o, "dialog")]_vars

\* one invocation went from the answer of its dialog through write and open
\* to its return while the other still waits for the user
WitnessC14 ==
    \E o, x \in Ops :
        /\ pc[o] = "Done" /\ IsOk(ores[o])
        /\ pc[x] = "AwaitingDialog"

\* C15: with open_file = true, a returned path, a successful write and a
\* successful open, the command has returned Ok(true) and its calls are the
\* dialog, then the writer once, then the opener once
SaveThenOpen ==
    \A o \in Ops :
        (req[o] # None /\ req[o][1].open_file /\ IsOk(wres[o]) /\ IsOk(ores[o])) =>
            /\ result[o] = Some(Ok("true"))
            /\ pc[o] = "Done"
            /\ Len(calls[o]) = 3
            /\ calls[o][1].svc = "dialog"
            /\ calls[o][2].svc = "write"
            /\ calls[o][3].svc = "open"
            /\ calls[o][2].data = req[o][1].content

\* a save with open of the two-byte content went through
WitnessC15 ==
    \E o \in Ops :
        /\ req[o] # None /\ req[o][1].open_file
        /\ IsOk(wres[o]) /\ IsOk(ores[o])
        /\ req[o][1].content = <<72, 105>>
        /\ fs[calls[o][2].path] = File(<<72, 105>>)

====
